---------------------------- MODULE Spec2Model ----------------------------
(***************************************************************************)
(* A model of the ProtectAI backend: the fingerprint store (backend/db.py), *)
(* the fingerprint engine (backend/fingerprint.py), the exact and similar   *)
(* searchers (backend/search.py) and the /analyze/ pipeline                 *)
(* (backend/main.py).                                                       *)
(*                                                                          *)
(* Python strings on which the code does more than compare for equality     *)
(* (digests, error strings) are sequences of one-character strings, so that *)
(* startswith, "in" and hex parsing are computed as the code computes them. *)
(* File names and messages, which are only compared, are TLA+ strings.      *)
(***************************************************************************)
EXTENDS Integers, Sequences, FiniteSets, TLC

VARIABLES
    rows,   \* the fingerprints table: a set of rows [id, filename, hash_value]
    db,     \* per process: the frame of its call into backend/db.py
    req,    \* per request: the locals of analyze_image and its position
    fn      \* the pure-function harness: which function, its inputs, its result

vars == <<rows, db, req, fn>>

---------------------------------------------------------------------------
(* Bounds of the model *)

\* the largest row id the table hands out (SQLite's rowid is unbounded)
MaxId == 3
\* the largest number of directory entries of a dataset folder
MaxFiles == 2
\* the largest number of candidates passed to search_similar
MaxCandidates == 2
\* thresholds passed to search_similar range over -1..MaxThreshold
MaxThreshold == 4

---------------------------------------------------------------------------
(* Python strings *)

\* "Error", the prefix main.py and search.py test fingerprints for
ErrorWord == <<"E", "r", "r", "o", "r">>

\* s.startswith(p)
StartsWith(s, p) ==
    /\ Len(s) >= Len(p)
    /\ SubSeq(s, 1, Len(p)) = p

\* p in s  (substring test)
Contains(s, p) ==
    \E i \in 0..(Len(s) - Len(p)) : SubSeq(s, i + 1, i + Len(p)) = p

\* the hexadecimal digits hexdigest() produces, with their values
HexDigits == <<"0", "1", "2", "3", "4", "5", "6", "7",
               "8", "9", "a", "b", "c", "d", "e", "f">>

HexChar(v) == HexDigits[v + 1]

HexVal(c) == (CHOOSE i \in 1..16 : HexDigits[i] = c) - 1

IsHexString(s) == \A i \in 1..Len(s) : \E j \in 1..16 : HexDigits[j] = s[i]


---------------------------------------------------------------------------
(* backend/fingerprint.py *)

\* Images: a file either decodes to a canonical 128x128 grayscale pixel buffer
\* (named by a number) or does not decode.
NumPixels == 2

Images == [ok : {TRUE}, pixels : 1..NumPixels] \cup [ok : {FALSE}, pixels : {0}]

\* The number of hex digits of a digest.  hashlib.sha256(...).hexdigest() has
\* 64 (256 bits, which hex_to_hash reads as 16 x 16); the model keeps the
\* shape at 1 digit (4 bits, read as 2 x 2).
HexLen == 1

RECURSIVE ToHex(_, _)
\* the n-digit lowercase hexadecimal form of v
ToHex(v, n) == IF n = 0 THEN <<>> ELSE Append(ToHex(v \div 16, n - 1), HexChar(v % 16))

RECURSIVE Pow(_, _)
Pow(b, e) == IF e = 0 THEN 1 ELSE b * Pow(b, e - 1)

\* hashlib.sha256(pixel_bytes).hexdigest(): a fixed map of pixel buffers to
\* digests, one to one on the buffers of the model
Sha256Hex(pixels) == ToHex((7 * pixels + 3) % Pow(16, HexLen), HexLen)

\* str(e) of the exception PIL raises for a file it cannot decode
DecodeMessage == <<" ", "g", "e", "n", "e", "r", "a", "t", "i", "n", "g", " ",
                   "f", "i", "n", "g", "e", "r", "p", "r", "i", "n", "t", ":", " ",
                   "cannot identify image file">>

\* a fingerprint function that answers a failure with the digest of no content
generate_fingerprint_of_nothing(img) ==
    IF img.ok THEN Sha256Hex(img.pixels)
    ELSE Sha256Hex(0)

\* generate_fingerprint(image_path), raise_error = False: the digest, or the
\* error message as a string
generate_fingerprint(img) ==
    IF img.ok THEN Sha256Hex(img.pixels)
    ELSE ErrorWord \o DecodeMessage

---------------------------------------------------------------------------
(* imagehash.hex_to_hash and ImageHash.__sub__, as backend/search.py uses them *)

RECURSIVE HexToInt(_)
\* int(hexstr, 16)
HexToInt(s) ==
    IF Len(s) = 0 THEN 0
    ELSE 16 * HexToInt(SubSeq(s, 1, Len(s) - 1)) + HexVal(s[Len(s)])

\* int(numpy.sqrt(n))
ISqrt(n) == CHOOSE r \in 0..n : r * r <= n /\ (r + 1) * (r + 1) > n

RECURSIVE BitLength(_)
BitLength(v) == IF v = 0 THEN 0 ELSE 1 + BitLength(v \div 2)

RECURSIVE ToBits(_, _)
\* '{:0>{width}b}'.format(v, width): the binary digits of v, most significant
\* first, padded with zeros on the left to n digits
ToBits(v, n) == IF n = 0 THEN <<>> ELSE Append(ToBits(v \div 2, n - 1), v % 2)

\* hex_to_hash(hexstr): the flattened bit array of the ImageHash; int() raises
\* ValueError on a string that is not hexadecimal
HexToHashRaises(hexstr) == Len(hexstr) = 0 \/ ~IsHexString(hexstr)

hex_to_hash(hexstr) ==
    LET hash_size == ISqrt(Len(hexstr) * 4)
        width     == hash_size * hash_size
        v         == HexToInt(hexstr)
        n         == IF BitLength(v) > width THEN BitLength(v) ELSE width
    IN  ToBits(v, n)

\* ImageHash.__sub__: TypeError when the sizes differ
HashSubRaises(a, b) == Len(a) # Len(b)

\* ImageHash.__sub__: numpy.count_nonzero(a.flatten() != b.flatten())
HashSub(a, b) == Cardinality({i \in 1..Len(a) : a[i] # b[i]})

---------------------------------------------------------------------------
(* backend/search.py *)

\* A directory entry of the dataset folder: a regular file holding an image
\* (decodable or not), or a subdirectory.
FileNames == {"ref.jpg", "x.png"}

Entries == [name : FileNames, isfile : {TRUE}, img : Images]
           \cup [name : FileNames, isfile : {FALSE}, img : {[ok |-> FALSE, pixels |-> 0]}]

DistinctNames(d) == \A i, j \in 1..Len(d) : i # j => d[i].name # d[j].name

\* os.listdir(dataset_folder), in the order the enumeration yields the entries
Listings == UNION {{d \in [1..n -> Entries] : DistinctNames(d)} : n \in 0..MaxFiles}

\* The dataset folder: absent, present but not listable (os.listdir raises),
\* or present with a listing.
Datasets == [state : {"missing", "unreadable"}, listing : {<<>>}]
            \cup [state : {"present"}, listing : Listings]

\* matches if matches else ["No matches found"]
NoMatchesFound == <<"No matches found">>

RECURSIVE MatchLoop(_, _, _)
\* the for loop of search_image_in_dataset over listing[i..]
MatchLoop(listing, i, query_fingerprint) ==
    IF i > Len(listing) THEN <<>>
    ELSE LET file == listing[i]
             rest == MatchLoop(listing, i + 1, query_fingerprint)
         IN  IF file.isfile /\ generate_fingerprint(file.img) = query_fingerprint
             THEN <<file.name>> \o rest
             ELSE rest

\* a search without the os.path.exists test, over a listing that is empty
\* for a folder that is not there
search_without_exists_test(query_name, img, dataset) ==
    LET query_fingerprint == generate_fingerprint(img)
        matches == MatchLoop(dataset.listing, 1, query_fingerprint)
    IN  IF Contains(query_fingerprint, ErrorWord)
        THEN [kind |-> "return", value |-> [error |-> query_fingerprint]]
        ELSE IF dataset.state = "unreadable"
        THEN [kind |-> "raise", value |-> [exc |-> "PermissionError"]]
        ELSE [kind |-> "return",
              value |-> [query |-> query_name,
                         matches |-> IF matches # <<>> THEN matches ELSE NoMatchesFound]]

\* search_image_in_dataset(image_path, dataset_folder): what it returns, or
\* the exception it lets through
search_image_in_dataset(query_name, img, dataset) ==
    LET query_fingerprint == generate_fingerprint(img)
        matches == MatchLoop(dataset.listing, 1, query_fingerprint)
    IN  IF Contains(query_fingerprint, ErrorWord)
        THEN [kind |-> "return", value |-> [error |-> query_fingerprint]]
        ELSE IF dataset.state = "missing"
        THEN [kind |-> "return", value |-> [error |-> <<"Dataset folder not found.">>]]
        ELSE IF dataset.state = "unreadable"
        THEN [kind |-> "raise", value |-> [exc |-> "PermissionError"]]
        ELSE [kind |-> "return",
              value |-> [query |-> query_name,
                         matches |-> IF matches # <<>> THEN matches ELSE NoMatchesFound]]

\* if distance < threshold
StrictlyWithinThreshold(distance, threshold) == distance < threshold

\* if distance <= threshold
WithinThreshold(distance, threshold) == distance <= threshold

RECURSIVE SimilarLoop(_, _, _, _)
\* the for loop of search_similar over all_fingerprints[i..]
SimilarLoop(all_fingerprints, i, target_hash, threshold) ==
    IF i > Len(all_fingerprints) THEN <<>>
    ELSE LET fp       == all_fingerprints[i]
             db_hash  == hex_to_hash(fp.hash_value)
             distance == HashSub(target_hash, db_hash)
             rest     == SimilarLoop(all_fingerprints, i + 1, target_hash, threshold)
         IN  IF WithinThreshold(distance, threshold)
             THEN <<[filename |-> fp.filename, hash |-> fp.hash_value,
                     distance |-> distance]>> \o rest
             ELSE rest

\* whether search_similar raises: hex_to_hash on a non-hex string, or the
\* subtraction of hashes of different sizes
SearchSimilarRaises(hash_value, all_fingerprints) ==
    \/ HexToHashRaises(hash_value)
    \/ \E i \in 1..Len(all_fingerprints) :
          \/ HexToHashRaises(all_fingerprints[i].hash_value)
          \/ HashSubRaises(hex_to_hash(hash_value),
                           hex_to_hash(all_fingerprints[i].hash_value))

\* search_similar(hash_value, threshold, all_fingerprints); cands.given is
\* FALSE for all_fingerprints = None
search_similar(hash_value, threshold, cands) ==
    LET all_fingerprints == IF cands.given THEN cands.list ELSE <<>>
    IN  IF SearchSimilarRaises(hash_value, all_fingerprints)
        THEN [kind |-> "raise", value |-> <<>>]
        ELSE [kind |-> "return",
              value |-> SimilarLoop(all_fingerprints, 1, hex_to_hash(hash_value), threshold)]

---------------------------------------------------------------------------
(* backend/db.py: the fingerprints table and the calls into it *)

\* Callers of backend/db.py other than the pipeline (administration, other
\* workers), and the requests served by analyze_image.
Callers == {"c1", "c2"}

Requests == {"r1"}

Procs == Callers \cup Requests

\* _safe_filename: uuid4().hex + "_" + basename, unique to the request
SafeName(r) == IF r = "r1" THEN "u1_q.jpg" ELSE "u2_q.jpg"

\* the file names callers save and delete
CallerKeys == {"a.jpg", "b.jpg"}

\* the digests of the model's images
Digests == {Sha256Hex(px) : px \in 1..NumPixels}

\* the frame of a process that is not inside a call
NoCall == [pc |-> "idle", op |-> "none", filename |-> "", hash_value |-> <<>>,
           row |-> 0, seen |-> <<>>, result |-> "none", did |-> "none"]

\* session.query(Fingerprint).filter_by(filename=filename)
RowsOf(table, filename) == {x \in table : x.filename = filename}

\* get_fingerprint_by_filename: .first() of the query
FirstRow(table, filename) ==
    CHOOSE x \in RowsOf(table, filename) : \A y \in RowsOf(table, filename) : x.id <= y.id

\* count_fingerprints
count_fingerprints(table) == Cardinality(table)

\* the rowid SQLite gives a new row of an INTEGER PRIMARY KEY table: one more
\* than the largest in the table
NewId(table) ==
    IF table = {} THEN 1
    ELSE 1 + (CHOOSE m \in {x.id : x \in table} : \A y \in table : y.id <= m)

\* a filename column declared without unique=True
NoUniqueConstraint(table, filename) == FALSE

\* the unique constraint on Fingerprint.filename: INSERT raises IntegrityError
UniqueViolation(table, filename) == RowsOf(table, filename) # {}

\* an update that is never committed
UpdateLost(table, id, hash_value) == table

\* UPDATE fingerprints SET hash_value = ? WHERE id = ?
UpdateById(table, id, hash_value) ==
    {IF x.id = id THEN [x EXCEPT !.hash_value = hash_value] ELSE x : x \in table}

\* a DELETE whose WHERE clause is lost
DeleteEveryRow(table, id) == {}

\* DELETE FROM fingerprints WHERE id = ?
DeleteById(table, id) == {x \in table : x.id # id}

\* a process enters save_fingerprint(filename, hash_value)
EnterSave(frame, filename, hash_value) ==
    [frame EXCEPT !.pc = "insert", !.op = "save", !.filename = filename,
                  !.hash_value = hash_value, !.row = 0, !.seen = <<>>,
                  !.result = "none", !.did = "none"]

\* a caller calls save_fingerprint
CallSave(p, filename, hash_value) ==
    /\ p \in Callers
    /\ db[p].pc = "idle"
    /\ db' = [db EXCEPT ![p] = EnterSave(db[p], filename, hash_value)]
    /\ UNCHANGED <<rows, req, fn>>

\* a save_fingerprint without the except IntegrityError clause: the
\* constraint violation reaches the caller
SaveInsertUncaught(p) ==
    /\ db[p].pc = "insert"
    /\ IF UniqueViolation(rows, db[p].filename)
       THEN /\ db' = [db EXCEPT ![p].pc = "returned", ![p].result = "raised"]
            /\ UNCHANGED rows
       ELSE /\ NewId(rows) <= MaxId
            /\ rows' = rows \cup {[id |-> NewId(rows), filename |-> db[p].filename,
                                   hash_value |-> db[p].hash_value]}
            /\ db' = [db EXCEPT ![p].pc = "returned", ![p].result = "ok",
                                ![p].did = "inserted"]
    /\ UNCHANGED <<req, fn>>

\* session.add(fp); session.commit(): the INSERT commits, or the unique
\* constraint raises IntegrityError and the handler rolls back
SaveInsert(p) ==
    /\ db[p].pc = "insert"
    /\ IF UniqueViolation(rows, db[p].filename)
       THEN /\ db' = [db EXCEPT ![p].pc = "lookup"]
            /\ UNCHANGED rows
       ELSE /\ NewId(rows) <= MaxId
            /\ rows' = rows \cup {[id |-> NewId(rows), filename |-> db[p].filename,
                                   hash_value |-> db[p].hash_value]}
            /\ db' = [db EXCEPT ![p].pc = "returned", ![p].result = "ok",
                                ![p].did = "inserted"]
    /\ UNCHANGED <<req, fn>>

\* the engine fails a statement of save_fingerprint (OperationalError: the
\* database file is locked or cannot be opened); only IntegrityError is
\* caught, so the call raises
SaveUnavailable(p) ==
    /\ db[p].pc \in {"insert", "lookup", "update"}
    /\ db' = [db EXCEPT ![p].pc = "returned", ![p].result = "raised",
                        ![p].did = "none"]
    /\ UNCHANGED <<rows, req, fn>>

\* existing_fp = session.query(Fingerprint).filter_by(filename=filename).first()
\* and the test "if existing_fp".  The SELECT runs after the rollback and
\* outside any write transaction (the sqlite3 driver begins one only before
\* INSERT, UPDATE and DELETE), so other calls may commit between it and the
\* UPDATE that follows.
SaveLookup(p) ==
    /\ db[p].pc = "lookup"
    /\ IF RowsOf(rows, db[p].filename) # {}
       THEN LET existing_fp == FirstRow(rows, db[p].filename)
            IN  db' = [db EXCEPT ![p].pc = "update", ![p].row = existing_fp.id,
                                 ![p].seen = existing_fp.hash_value]
       ELSE db' = [db EXCEPT ![p].pc = "returned", ![p].result = "ok",
                             ![p].did = "skipped"]
    /\ UNCHANGED <<rows, req, fn>>

\* existing_fp.hash_value = hash_value; session.commit(): no UPDATE is
\* emitted for an attribute set to the value it was loaded with; an UPDATE by
\* primary key that matches no row raises StaleDataError.  did notes what the
\* statement wrote: "updated" when the row it changed is a row of the call's
\* filename, "misdirected" when the id now belongs to a row of another
\* filename (the rowid reused after a delete).
SaveUpdate(p) ==
    /\ db[p].pc = "update"
    /\ IF db[p].seen = db[p].hash_value
       THEN /\ db' = [db EXCEPT ![p].pc = "returned", ![p].result = "ok",
                                ![p].did = "nochange"]
            /\ UNCHANGED rows
       ELSE IF \E x \in rows : x.id = db[p].row
       THEN /\ rows' = UpdateById(rows, db[p].row, db[p].hash_value)
            /\ db' = [db EXCEPT ![p].pc = "returned", ![p].result = "ok",
                                ![p].did =
                                    IF \E x \in rows : x.id = db[p].row
                                                        /\ x.filename = db[p].filename
                                    THEN "updated" ELSE "misdirected"]
       ELSE /\ db' = [db EXCEPT ![p].pc = "returned", ![p].result = "raised",
                                ![p].did = "none"]
            /\ UNCHANGED rows
    /\ UNCHANGED <<req, fn>>

\* a caller calls delete_fingerprint(filename)
CallDelete(p, filename) ==
    /\ p \in Callers
    /\ db[p].pc = "idle"
    /\ db' = [db EXCEPT ![p] = [NoCall EXCEPT !.pc = "del_lookup", !.op = "delete",
                                              !.filename = filename]]
    /\ UNCHANGED <<rows, req, fn>>

\* fp = session.query(Fingerprint).filter_by(filename=filename).first();
\* return False when there is none
DeleteLookup(p) ==
    /\ db[p].pc = "del_lookup"
    /\ IF RowsOf(rows, db[p].filename) # {}
       THEN db' = [db EXCEPT ![p].pc = "del_delete",
                             ![p].row = FirstRow(rows, db[p].filename).id]
       ELSE db' = [db EXCEPT ![p].pc = "returned", ![p].result = "False"]
    /\ UNCHANGED <<rows, req, fn>>

\* session.delete(fp); session.commit(); return True
DeleteCommit(p) ==
    /\ db[p].pc = "del_delete"
    /\ rows' = DeleteById(rows, db[p].row)
    /\ db' = [db EXCEPT ![p].pc = "returned", ![p].result = "True",
                        ![p].did = "deleted"]
    /\ UNCHANGED <<req, fn>>

\* the call returns to the caller (finally: session.close()); a caller that
\* keeps a record of its calls (fn.op = "serial") notes the call and the
\* count_fingerprints() it reads after it
CallReturn(p) ==
    /\ p \in Callers
    /\ db[p].pc = "returned"
    /\ db' = [db EXCEPT ![p] = NoCall]
    /\ fn' = IF fn.op = "serial"
             THEN [op |-> "serial",
                   prev |-> [op |-> db[p].op, filename |-> db[p].filename,
                             hash_value |-> db[p].hash_value, result |-> db[p].result,
                             count |-> count_fingerprints(rows)]]
             ELSE fn
    /\ UNCHANGED <<rows, req>>

---------------------------------------------------------------------------
(* backend/main.py: analyze_image *)

\* Python's None where a path string is expected
None == "None"

\* a dict not yet assigned
Unset == [unset |-> TRUE]

\* the paths generate_alert and generate_takedown_request return
AlertPath == "alerts/alert_T.txt"

TakedownPath == "alerts/takedown_T.txt"

\* what detect_deepfake hands back to analyze_image: a verdict, an error
\* dict, or an exception
Verdicts == [file : {SafeName(r) : r \in Requests}, prediction : {"REAL", "FAKE"}, confidence : {55, 99}]

ClassifierOutcomes ==
    [kind : {"return"}, value : Verdicts]
    \cup [kind : {"return"}, value : {[error |-> "model failure"]}]
    \cup [kind : {"raise"}, value : {[exc |-> "RuntimeError"]}]

\* what a call of the incident reporter does: returns its path or raises
ReporterOutcomes == {"ok", "raise"}

\* the datasets a request may find at DATASET_FOLDER
RequestDatasets == Datasets

\* the locals of a request that has not started
NoRequest ==
    [pc |-> "idle", image |-> [ok |-> FALSE, pixels |-> 0], fingerprint |-> <<>>,
     persist_failed |-> FALSE, dataset |-> [state |-> "missing", listing |-> <<>>],
     search_raised |-> FALSE, search_result |-> Unset, matches_list |-> <<>>,
     classifier |-> Unset, detection_result |-> Unset, alert_path |-> None, takedown_path |-> None,
     response |-> [status_code |-> 0, content |-> Unset],
     alert_outcome |-> "none", takedown_outcome |-> "none",
     ran |-> <<>>, written |-> {}]

\* raise HTTPException(status_code=500, detail=...)
HTTPException(detail) == [status_code |-> 500, content |-> [detail |-> detail]]

\* JSONResponse(status_code=..., content=...)
JSONResponse(status_code, content) == [status_code |-> status_code, content |-> content]

\* the upload is saved under UPLOAD_FOLDER / safe_name
Receive(r, img) ==
    /\ req[r].pc = "idle"
    /\ req' = [req EXCEPT ![r].pc = "FINGERPRINT", ![r].image = img]
    /\ UNCHANGED <<rows, db, fn>>

\* an error check for a message that generate_fingerprint does not produce
IsFingerprintErrorLower(fingerprint) ==
    StartsWith(fingerprint, <<"e", "r", "r", "o", "r">>)

\* whether main.py takes the fingerprint for an error string
IsFingerprintError(fingerprint) == StartsWith(fingerprint, ErrorWord)

\* STEP 1: generate_fingerprint, and the entry into db.save_fingerprint
Fingerprint(r) ==
    /\ req[r].pc = "FINGERPRINT"
    /\ LET fingerprint == generate_fingerprint(req[r].image)
       IN  IF IsFingerprintError(fingerprint)
           THEN /\ req' = [req EXCEPT ![r].pc = "DONE",
                                      ![r].fingerprint = fingerprint,
                                      ![r].ran = Append(@, "FINGERPRINT"),
                                      ![r].response = HTTPException(fingerprint)]
                /\ UNCHANGED db
           ELSE /\ req' = [req EXCEPT ![r].pc = "PERSIST",
                                      ![r].fingerprint = fingerprint,
                                      ![r].ran = Append(Append(@, "FINGERPRINT"), "PERSIST")]
                /\ db' = [db EXCEPT ![r] = EnterSave(db[r], SafeName(r), fingerprint)]
    /\ UNCHANGED <<rows, fn>>

\* a pipeline that goes from PERSIST to the classifier, leaving the search out
PersistEndSkipsSearch(r) ==
    /\ req[r].pc = "PERSIST"
    /\ db[r].pc = "returned"
    /\ req' = [req EXCEPT ![r].pc = "CLASSIFY",
                          ![r].persist_failed = (db[r].result = "raised")]
    /\ db' = [db EXCEPT ![r].pc = "idle"]
    /\ UNCHANGED <<rows, fn>>

\* db.save_fingerprint has returned or raised; "except Exception" only logs
PersistEnd(r) ==
    /\ req[r].pc = "PERSIST"
    /\ db[r].pc = "returned"
    /\ req' = [req EXCEPT ![r].pc = "SEARCH",
                          ![r].persist_failed = (db[r].result = "raised")]
    /\ db' = [db EXCEPT ![r].pc = "idle"]
    /\ UNCHANGED <<rows, fn>>

\* the normalisation of search_result["matches"] to matches_list
NormalizeMatches(search_result) ==
    IF "matches" \in DOMAIN search_result
    THEN IF search_result.matches = NoMatchesFound THEN <<>> ELSE search_result.matches
    ELSE <<>>

\* an except clause that keeps the search going with a result of no matches
SearchResultSwallowed(outcome) ==
    IF outcome.kind = "raise"
    THEN [query |-> "", matches |-> NoMatchesFound]
    ELSE outcome.value

\* what analyze_image keeps of the outcome of search_image_in_dataset
SearchResultOf(outcome) ==
    IF outcome.kind = "raise"
    THEN [error |-> <<"Dataset search failed: ", outcome.value.exc>>]
    ELSE outcome.value

\* STEP 2: search_image_in_dataset and the normalisation of its matches
Search(r, dataset) ==
    /\ req[r].pc = "SEARCH"
    /\ LET outcome == search_image_in_dataset(SafeName(r), req[r].image, dataset)
           search_result == SearchResultOf(outcome)
       IN  req' = [req EXCEPT ![r].pc = "CLASSIFY",
                              ![r].dataset = dataset,
                              ![r].search_raised = (outcome.kind = "raise"),
                              ![r].search_result = search_result,
                              ![r].matches_list = NormalizeMatches(search_result),
                              ![r].ran = Append(@, "SEARCH")]
    /\ UNCHANGED <<rows, db, fn>>

\* a pipeline that handles the exception and forgets the error dict
ClassifierRaised(outcome) == outcome.kind = "raise"

\* whether analyze_image returns the 500 response after detect_deepfake
ClassifierFailed(outcome) ==
    outcome.kind = "raise" \/ "error" \in DOMAIN outcome.value

\* STEP 3: detect_deepfake; an exception or an error dict ends the request
Classify(r, outcome) ==
    /\ req[r].pc = "CLASSIFY"
    /\ IF ClassifierFailed(outcome)
       THEN req' = [req EXCEPT
                ![r].pc = "DONE",
                ![r].classifier = outcome,
                ![r].ran = Append(@, "CLASSIFY"),
                ![r].response =
                    IF outcome.kind = "raise"
                    THEN JSONResponse(500, [error |-> "Deepfake detection failed"])
                    ELSE JSONResponse(500, outcome.value)]
       ELSE req' = [req EXCEPT ![r].pc = "REPORT",
                               ![r].classifier = outcome,
                               ![r].detection_result = outcome.value,
                               ![r].ran = Append(@, "CLASSIFY")]
    /\ UNCHANGED <<rows, db, fn>>

\* a pipeline without the try block around the reporter calls: the exception
\* reaches the server, which answers 500
ReportUncaught(r, alert, takedown) ==
    /\ req[r].pc = "REPORT"
    /\ LET raised == alert = "raise" \/ takedown = "raise"
       IN  req' = [req EXCEPT
                ![r].pc = "DONE",
                ![r].alert_path = IF alert = "raise" THEN None ELSE AlertPath,
                ![r].takedown_path = IF raised THEN None ELSE TakedownPath,
                ![r].written = IF alert = "raise" THEN {}
                               ELSE IF takedown = "raise" THEN {AlertPath}
                               ELSE {AlertPath, TakedownPath},
                ![r].alert_outcome = alert,
                ![r].takedown_outcome = IF alert = "raise" THEN "none" ELSE takedown,
                ![r].ran = Append(@, "REPORT"),
                ![r].response =
                    IF raised
                    THEN JSONResponse(500, [detail |-> "Internal Server Error"])
                    ELSE JSONResponse(200,
                        [file |-> SafeName(r),
                         fingerprint |-> req[r].fingerprint,
                         search_result |-> req[r].search_result,
                         deepfake_result |-> req[r].detection_result,
                         alert_file |-> AlertPath,
                         takedown_request |-> TakedownPath])]
    /\ UNCHANGED <<rows, db, fn>>

\* STEP 4: generate_alert, then generate_takedown_request, in one try block;
\* then the response.  alert_outcome and takedown_outcome note what each call
\* did (takedown "none": not called, generate_alert having raised).
Report(r, alert, takedown) ==
    /\ req[r].pc = "REPORT"
    /\ LET raised == alert = "raise" \/ takedown = "raise"
           alert_path == IF raised THEN None ELSE AlertPath
           takedown_path == IF raised THEN None ELSE TakedownPath
           written == IF alert = "raise" THEN {}
                      ELSE IF takedown = "raise" THEN {AlertPath}
                      ELSE {AlertPath, TakedownPath}
       IN  req' = [req EXCEPT
                ![r].pc = "DONE",
                ![r].alert_path = alert_path,
                ![r].takedown_path = takedown_path,
                ![r].written = written,
                ![r].alert_outcome = alert,
                ![r].takedown_outcome = IF alert = "raise" THEN "none" ELSE takedown,
                ![r].ran = Append(@, "REPORT"),
                ![r].response = JSONResponse(200,
                    [file |-> SafeName(r),
                     fingerprint |-> req[r].fingerprint,
                     search_result |-> req[r].search_result,
                     deepfake_result |-> req[r].detection_result,
                     alert_file |-> alert_path,
                     takedown_request |-> takedown_path])]
    /\ UNCHANGED <<rows, db, fn>>

---------------------------------------------------------------------------
(* The server: requests and callers of the store, interleaved *)

NoFn == [op |-> "none"]

\* the tables a server may find in protectai.db when it starts: those the
\* unique constraints on id and filename allow, with room for one more row
StoredTables ==
    {t \in SUBSET [id : 1..(MaxId - 1), filename : CallerKeys, hash_value : Digests] :
        \A x, y \in t : (x.id = y.id \/ x.filename = y.filename) => x = y}

\* after init_db() on an empty database
InitEmpty ==
    /\ rows = {}
    /\ db = [p \in Procs |-> NoCall]
    /\ req = [r \in Requests |-> NoRequest]
    /\ fn = NoFn

\* after init_db() on a database kept from earlier runs
Init ==
    /\ rows \in StoredTables
    /\ db = [p \in Procs |-> NoCall]
    /\ req = [r \in Requests |-> NoRequest]
    /\ fn = NoFn

\* the steps of the calls into backend/db.py made by the callers in cs
StoreNext(cs) ==
    \/ \E p \in cs, k \in CallerKeys, h \in Digests : CallSave(p, k, h)
    \/ \E p \in cs, k \in CallerKeys : CallDelete(p, k)
    \/ \E p \in cs : SaveInsert(p)
    \/ \E p \in cs : SaveUnavailable(p)
    \/ \E p \in cs : SaveLookup(p)
    \/ \E p \in cs : SaveUpdate(p)
    \/ \E p \in cs : DeleteLookup(p)
    \/ \E p \in cs : DeleteCommit(p)
    \/ \E p \in cs : CallReturn(p)

\* the steps of analyze_image, with those of its call of db.save_fingerprint
\* (the INSERT of a name that uuid4 made unique meets no existing row)
Next ==
    \/ \E r \in Requests, img \in Images : Receive(r, img)
    \/ \E r \in Requests : Fingerprint(r)
    \/ \E r \in Requests : SaveInsert(r)
    \/ \E r \in Requests : SaveUnavailable(r)
    \/ \E r \in Requests : PersistEnd(r)
    \/ \E r \in Requests, d \in RequestDatasets : Search(r, d)
    \/ \E r \in Requests, o \in ClassifierOutcomes : Classify(r, o)
    \/ \E r \in Requests, a \in ReporterOutcomes, t \in ReporterOutcomes : Report(r, a, t)

Spec == Init /\ [][Next]_vars

\* the callers of the store alone, interleaved statement by statement
StoreSpec == InitEmpty /\ [][StoreNext(Callers)]_vars

\* one caller alone: its calls follow one another, none overlaps another
SerialInit ==
    /\ rows \in StoredTables
    /\ db = [p \in Procs |-> NoCall]
    /\ req = [r \in Requests |-> NoRequest]
    /\ fn = [op |-> "serial",
             prev |-> [op |-> "none", filename |-> "", hash_value |-> <<>>,
                       result |-> "none", count |-> 0]]

SerialSpec == SerialInit /\ [][StoreNext({"c1"})]_vars

\* save_fingerprint calls alone, one per caller, on an available store
UpsertNext ==
    \/ \E p \in Callers, k \in CallerKeys, h \in Digests : CallSave(p, k, h)
    \/ \E p \in Callers : SaveInsert(p)
    \/ \E p \in Callers : SaveLookup(p)
    \/ \E p \in Callers : SaveUpdate(p)

UpsertSpec == Init /\ [][UpsertNext]_vars

\* the dataset folders that hold no entry
EmptyDatasets == {d \in RequestDatasets : d.listing = <<>>}

\* one caller of the store, its calls following one another, while a request
\* goes through analyze_image (over a dataset folder without entries)
AdminNext ==
    \/ StoreNext({"c1"})
    \/ \E r \in Requests, img \in Images : Receive(r, img)
    \/ \E r \in Requests : Fingerprint(r)
    \/ \E r \in Requests : SaveInsert(r)
    \/ \E r \in Requests : SaveUnavailable(r)
    \/ \E r \in Requests : PersistEnd(r)
    \/ \E r \in Requests, d \in EmptyDatasets : Search(r, d)
    \/ \E r \in Requests, o \in ClassifierOutcomes : Classify(r, o)
    \/ \E r \in Requests, a \in ReporterOutcomes, t \in ReporterOutcomes : Report(r, a, t)

AdminSpec == Init /\ [][AdminNext]_vars

---------------------------------------------------------------------------
(* The searchers of backend/search.py, applied to every input of the bounds *)

\* every digest string of HexLen digits
HexStrings == {ToHex(v, HexLen) : v \in 0..(Pow(16, HexLen) - 1)}

\* stored hashes at each Hamming distance from "0"
CandidateHashes == {<<"0">>, <<"1">>, <<"3">>, <<"7">>, <<"f">>}

Candidates == [filename : CallerKeys, hash_value : CandidateHashes]

\* the all_fingerprints argument: None, or a list of {'filename', 'hash_value'}
CandidateLists ==
    {[given |-> FALSE, list |-> <<>>]}
    \cup [given : {TRUE}, list : UNION {[1..n -> Candidates] : n \in 0..MaxCandidates}]

Thresholds == (-1)..MaxThreshold

\* the inputs of one call of a searcher
SearchInit ==
    /\ rows = {}
    /\ db = [p \in Procs |-> NoCall]
    /\ req = [r \in Requests |-> NoRequest]
    /\ \/ fn \in [op : {"exact"}, called : {FALSE}, image : Images, dataset : Datasets]
       \/ fn \in [op : {"similar"}, called : {FALSE}, hash_value : HexStrings,
                  threshold : Thresholds, cands : CandidateLists]

\* search_image_in_dataset(image_path, dataset_folder)
CallSearchImage ==
    /\ fn.op = "exact"
    /\ ~fn.called
    /\ fn' = [op |-> "exact", called |-> TRUE, image |-> fn.image, dataset |-> fn.dataset,
              outcome |-> search_image_in_dataset("q.jpg", fn.image, fn.dataset)]
    /\ UNCHANGED <<rows, db, req>>

\* search_similar(hash_value, threshold, all_fingerprints)
CallSearchSimilar ==
    /\ fn.op = "similar"
    /\ ~fn.called
    /\ fn' = [op |-> "similar", called |-> TRUE, hash_value |-> fn.hash_value,
              threshold |-> fn.threshold, cands |-> fn.cands,
              outcome |-> search_similar(fn.hash_value, fn.threshold, fn.cands)]
    /\ UNCHANGED <<rows, db, req>>

SearchNext == CallSearchImage \/ CallSearchSimilar

SearchSpec == SearchInit /\ [][SearchNext]_vars

---------------------------------------------------------------------------
(* Properties of the store *)

\* the store holds exactly one record for filename, and its hash is hash_value
OneRecord(filename, hash_value) ==
    \E x \in rows : RowsOf(rows, filename) = {x} /\ x.hash_value = hash_value

\* caller p has returned normally from a save of the key its previous call
\* saved, normally too
SavedTwice(p) ==
    /\ fn.op = "serial"
    /\ db[p].pc = "returned" /\ db[p].op = "save" /\ db[p].result = "ok"
    /\ fn.prev.op = "save" /\ fn.prev.result = "ok"
    /\ fn.prev.filename = db[p].filename

\* C1: upsert idempotence.  When a caller saves (k, h1) and then (k, h2), with
\* no other call between the two, the store holds exactly one record for k,
\* its hash_value is h2, and count_fingerprints() is what it was after the
\* first call.
C1_UpsertIdempotent ==
    \A p \in Callers :
        SavedTwice(p) =>
            /\ OneRecord(db[p].filename, db[p].hash_value)
            /\ count_fingerprints(rows) = fn.prev.count

\* C1, its case: a second save of a key with another hash, beside another record
C1_Witness ==
    \E p \in Callers :
        /\ SavedTwice(p)
        /\ fn.prev.hash_value # db[p].hash_value
        /\ db[p].did = "updated"
        /\ count_fingerprints(rows) = 2

\* C7: key uniqueness.  In every state of the store reached by concurrent
\* save_fingerprint and delete_fingerprint calls, interleaved statement by
\* statement, no two records have the same filename.
C7_KeyUnique ==
    \A x, y \in rows : x.filename = y.filename => x = y

\* C7, its case: a save whose INSERT met the record another call, still in
\* progress or just returned, had inserted for the same key
C7_Witness ==
    \E p, q \in Callers :
        /\ p # q
        /\ db[p].op = "save" /\ db[q].op = "save"
        /\ db[p].filename = db[q].filename
        /\ db[p].did = "inserted"
        /\ db[q].pc = "lookup"
        /\ RowsOf(rows, db[p].filename) # {}

\* both callers have returned from save_fingerprint calls on one key
BothSaved(p, q) ==
    /\ p # q
    /\ db[p].pc = "returned" /\ db[q].pc = "returned"
    /\ db[p].op = "save" /\ db[q].op = "save"
    /\ db[p].filename = db[q].filename

\* C8: concurrent upserts to one key.  Under every interleaving of the
\* statements of two save_fingerprint calls on the same key, both calls return
\* without an error, and once both have returned the store holds exactly one
\* record for the key, whose hash_value is that of one of the two calls.
C8_ConcurrentUpserts ==
    \A p, q \in Callers :
        BothSaved(p, q) =>
            /\ db[p].result = "ok" /\ db[q].result = "ok"
            /\ \/ OneRecord(db[p].filename, db[p].hash_value)
               \/ OneRecord(db[p].filename, db[q].hash_value)

\* C8, its case: the two calls overlapped on a key that had a record; both
\* met IntegrityError and read the same record before either wrote, one
\* then wrote its hash and the other had nothing to change
C8_Witness ==
    \E p, q \in Callers :
        /\ BothSaved(p, q)
        /\ db[p].hash_value # db[q].hash_value
        /\ db[p].did = "updated" /\ db[q].did = "nochange"
        /\ db[p].seen = db[q].seen

---------------------------------------------------------------------------
(* Properties of the pipeline *)

\* request r has returned its response
Done(r) == req[r].pc = "DONE"

\* stage has been started for request r
Ran(r, stage) == \E i \in 1..Len(req[r].ran) : req[r].ran[i] = stage

\* db.save_fingerprint raised during PERSIST of request r
StoreFailed(r) == Ran(r, "PERSIST") /\ req[r].pc # "PERSIST" /\ db[r].result = "raised"

\* the classifier call of request r raised or returned an error outcome
ClassifierErrored(r) ==
    /\ Ran(r, "CLASSIFY")
    /\ \/ req[r].classifier.kind = "raise"
       \/ req[r].classifier.value \notin Verdicts

\* the SEARCH stage of request r failed: the dataset folder is missing, or
\* search_image_in_dataset raised on it
SearchFailed(r) == Ran(r, "SEARCH") /\ req[r].dataset.state # "present"

\* the files of a listing whose pixel content is that of image
SamePixels(listing, image) ==
    {i \in 1..Len(listing) :
        /\ listing[i].isfile
        /\ listing[i].img.ok
        /\ image.ok
        /\ listing[i].img.pixels = image.pixels}

\* the SEARCH stage of request r ran and found no match
SearchFoundNone(r) ==
    /\ Ran(r, "SEARCH")
    /\ req[r].dataset.state = "present"
    /\ SamePixels(req[r].dataset.listing, req[r].image) = {}

\* C2: partial-failure isolation.  When db.save_fingerprint raises during
\* PERSIST and the classifier returns a verdict, the pipeline returns a
\* successful result that carries the matches and a verdict, and the result
\* has a stage_errors entry that names the store failure.
C2_StoreFailureRecorded ==
    \A r \in Requests :
        (Done(r) /\ StoreFailed(r) /\ ~ClassifierErrored(r)) =>
            /\ req[r].response.status_code = 200
            /\ "search_result" \in DOMAIN req[r].response.content
            /\ req[r].response.content.deepfake_result \in Verdicts
            /\ "stage_errors" \in DOMAIN req[r].response.content

\* C3: classifier failure is fatal.  Whenever the classifier call raises or
\* returns an error outcome, the response is an error alone: it has no
\* verdict, no match list, no fingerprint and no artifact reference; REPORT
\* is not executed and no alert or takedown artifact is generated.
C3_ClassifierFatal ==
    \A r \in Requests :
        ClassifierErrored(r) =>
            /\ Done(r)
            /\ req[r].response.status_code = 500
            /\ DOMAIN req[r].response.content = {"error"}
            /\ ~Ran(r, "REPORT")
            /\ req[r].written = {}

\* C3, its case: the classifier returned an error dict after a search that
\* had found a match
C3_Witness ==
    \E r \in Requests :
        /\ ClassifierErrored(r)
        /\ req[r].classifier.kind = "return"
        /\ req[r].matches_list # <<>>
        /\ Done(r)

\* C4: fingerprint failure is fatal.  Whenever generate_fingerprint fails for
\* the upload, the request ends with an error response alone, and none of
\* PERSIST, SEARCH, CLASSIFY or REPORT is executed: the request writes no
\* record and no artifact.
C4_FingerprintFatal ==
    \A r \in Requests :
        (~req[r].image.ok /\ Ran(r, "FINGERPRINT")) =>
            /\ Done(r)
            /\ req[r].response.status_code = 500
            /\ DOMAIN req[r].response.content = {"detail"}
            /\ req[r].ran = <<"FINGERPRINT">>
            /\ db[r].op = "none"
            /\ RowsOf(rows, SafeName(r)) = {}
            /\ req[r].written = {}

\* C4, its case: an upload that does not decode, answered, beside a store
\* that holds records
C4_Witness ==
    \E r \in Requests :
        /\ ~req[r].image.ok
        /\ Done(r)
        /\ IsFingerprintError(req[r].response.content.detail)
        /\ rows # {}

\* what C9 says of a request whose SEARCH stage failed, once it is done
SearchFailureSurvived(r) ==
    /\ Ran(r, "CLASSIFY") /\ Ran(r, "REPORT")
    /\ req[r].response.status_code = 200
    /\ req[r].response.content.fingerprint = Sha256Hex(req[r].image.pixels)
    /\ req[r].response.content.deepfake_result \in Verdicts
    /\ req[r].matches_list = <<>>
    /\ "error" \in DOMAIN req[r].response.content.search_result

\* C9 as stated: if the SEARCH stage fails, the pipeline still executes
\* CLASSIFY and REPORT and returns a successful result with the fingerprint,
\* the verdict and the search error.
C9_AsStated ==
    \A r \in Requests : (Done(r) /\ SearchFailed(r)) => SearchFailureSurvived(r)

\* C9, amended: if the SEARCH stage fails, the pipeline still executes
\* CLASSIFY; unless the classifier itself fails, it executes REPORT and
\* returns a successful result that carries the fingerprint and the verdict,
\* with an empty match list used downstream and the search error recorded in
\* the result.
C9_SearchNonFatal ==
    \A r \in Requests :
        /\ (SearchFailed(r) /\ req[r].pc # "CLASSIFY") => Ran(r, "CLASSIFY")
        /\ (Done(r) /\ SearchFailed(r) /\ ~ClassifierErrored(r)) => SearchFailureSurvived(r)

\* C9, its case: search_image_in_dataset raised and the request was answered
\* with a verdict
C9_Witness ==
    \E r \in Requests :
        /\ Done(r)
        /\ req[r].search_raised
        /\ req[r].response.status_code = 200
        /\ req[r].response.content.deepfake_result.prediction = "FAKE"

\* C10: no match versus failure.  A search that ran and found no match gives
\* a match-list result and no error; a search that failed gives an error and
\* no match list; so the two never give equal outcomes, neither in what
\* search_image_in_dataset hands back nor in the search result of a response
\* that carries one.
C10_NoMatchNotFailure ==
    \A r \in Requests :
        /\ SearchFoundNone(r) =>
              /\ ~req[r].search_raised
              /\ "matches" \in DOMAIN req[r].search_result
              /\ "error" \notin DOMAIN req[r].search_result
        /\ SearchFailed(r) =>
              /\ "error" \in DOMAIN req[r].search_result
              /\ "matches" \notin DOMAIN req[r].search_result
        /\ (Ran(r, "SEARCH") /\ req[r].response.status_code = 200) =>
              req[r].response.content.search_result = req[r].search_result

\* C10, its case: a successful response to a search over an empty dataset
C10_Witness ==
    \E r \in Requests :
        /\ SearchFoundNone(r)
        /\ req[r].dataset.listing = <<>>
        /\ req[r].response.status_code = 200

---------------------------------------------------------------------------
(* Properties of the searchers *)

\* the elements of a sequence
Range(seq) == {seq[i] : i \in 1..Len(seq)}

\* search_image_in_dataset has been called on a query that fingerprints and a
\* dataset folder that exists and can be listed
ExactSearched ==
    /\ fn.op = "exact" /\ fn.called
    /\ fn.image.ok
    /\ fn.dataset.state = "present"

\* the names of the regular files of the dataset whose content is the query's
EqualFiles ==
    {fn.dataset.listing[i].name : i \in SamePixels(fn.dataset.listing, fn.image)}

\* C5: exact-match correctness.  For a query that fingerprints and a dataset
\* folder that exists, the match list search_image_in_dataset returns holds
\* exactly the names of the regular files whose digest equals the query's:
\* it is [X] when X is the only one, and the empty list when there is none.
C5_ExactMatches ==
    ExactSearched =>
        /\ fn.outcome.kind = "return"
        /\ "matches" \in DOMAIN fn.outcome.value
        /\ Range(fn.outcome.value.matches) = EqualFiles
        /\ Len(fn.outcome.value.matches) = Cardinality(EqualFiles)

\* C5 where it holds: the match list of a search that found files
C5_WhenFound ==
    (ExactSearched /\ EqualFiles # {}) =>
        /\ fn.outcome.kind = "return"
        /\ Range(fn.outcome.value.matches) = EqualFiles
        /\ Len(fn.outcome.value.matches) = Cardinality(EqualFiles)

RECURSIVE PopXor(_, _)
\* popcount(a XOR b)
PopXor(a, b) ==
    IF a = 0 /\ b = 0 THEN 0
    ELSE (IF a % 2 # b % 2 THEN 1 ELSE 0) + PopXor(a \div 2, b \div 2)

\* the Hamming distance of two hex strings of one length
Hamming(q, h) == PopXor(HexToInt(q), HexToInt(h))

\* search_similar has been called
SimilarSearched == fn.op = "similar" /\ fn.called

\* the candidate list search_similar was given
GivenCandidates == IF fn.cands.given THEN fn.cands.list ELSE <<>>

\* the candidates within threshold t of the query, in the order given
RECURSIVE Within(_, _, _)
Within(cs, q, t) ==
    IF cs = <<>> THEN <<>>
    ELSE (IF Hamming(q, Head(cs).hash_value) <= t
          THEN <<[filename |-> Head(cs).filename, hash |-> Head(cs).hash_value]>>
          ELSE <<>>) \o Within(Tail(cs), q, t)

\* an entry of the result without its distance
Stripped(entries) ==
    [i \in 1..Len(entries) |-> [filename |-> entries[i].filename, hash |-> entries[i].hash]]

\* C6: Hamming bound.  search_similar returns an entry for a candidate if and
\* only if the Hamming distance between the query hash and the candidate's
\* hash is at most the threshold; the distance of each entry is that Hamming
\* distance; with threshold 0 the result is the candidates whose hash equals
\* the query; an empty or omitted candidate list gives an empty result.
C6_HammingBound ==
    SimilarSearched =>
        /\ fn.outcome.kind = "return"
        /\ Stripped(fn.outcome.value) = Within(GivenCandidates, fn.hash_value, fn.threshold)
        /\ \A j \in 1..Len(fn.outcome.value) :
              fn.outcome.value[j].distance =
                  Hamming(fn.hash_value, fn.outcome.value[j].hash)
        /\ fn.threshold = 0 =>
              Range(Stripped(fn.outcome.value)) =
                  {[filename |-> c.filename, hash |-> c.hash_value] :
                      c \in {c \in Range(GivenCandidates) : c.hash_value = fn.hash_value}}
        /\ GivenCandidates = <<>> => fn.outcome.value = <<>>

\* C6, its case: of two candidates, the one at distance exactly the threshold
\* is returned and the one farther is not
C6_Witness ==
    /\ SimilarSearched
    /\ fn.threshold = 2
    /\ Len(GivenCandidates) = 2
    /\ Hamming(fn.hash_value, GivenCandidates[1].hash_value) = 3
    /\ Hamming(fn.hash_value, GivenCandidates[2].hash_value) = 2
    /\ Len(fn.outcome.value) = 1
    /\ fn.outcome.value[1].distance = 2

---------------------------------------------------------------------------
(* Order of the search results *)

\* the place of a file name in the lexical order of the model's names (the
\* order of Python's str comparison)
LexRank(name) ==
    CASE name = "a.jpg" -> 1
      [] name = "b.jpg" -> 2
      [] name = "ref.jpg" -> 3
      [] name = "x.png" -> 4

\* C15: deterministic exact-match order.  The matches search_image_in_dataset
\* returns are in lexical order of file name, whatever the order in which the
\* directory enumeration yields the files.
C15_LexicalOrder ==
    (ExactSearched /\ fn.outcome.kind = "return"
                   /\ "matches" \in DOMAIN fn.outcome.value
                   /\ fn.outcome.value.matches # NoMatchesFound) =>
        \A i, j \in 1..Len(fn.outcome.value.matches) :
            i < j => LexRank(fn.outcome.value.matches[i])
                        < LexRank(fn.outcome.value.matches[j])

\* C16: similar-match order.  The sequence search_similar returns is sorted by
\* ascending distance, entries of equal distance by filename, whatever the
\* order of the candidate list.
C16_SortedByDistance ==
    (SimilarSearched /\ fn.outcome.kind = "return") =>
        \A i, j \in 1..Len(fn.outcome.value) :
            i < j =>
                \/ fn.outcome.value[i].distance < fn.outcome.value[j].distance
                \/ /\ fn.outcome.value[i].distance = fn.outcome.value[j].distance
                   /\ LexRank(fn.outcome.value[i].filename)
                         <= LexRank(fn.outcome.value[j].filename)

---------------------------------------------------------------------------
(* Order of the stages *)

\* the stages of analyze_image, in the order of its code
StageOrder == <<"FINGERPRINT", "PERSIST", "SEARCH", "CLASSIFY", "REPORT">>

\* C17: stage ordering.  The stages a request has started are an initial part
\* of FINGERPRINT, PERSIST, SEARCH, CLASSIFY, REPORT; PERSIST is started only
\* with a fingerprint that succeeded; SEARCH only when the save has returned
\* or raised; REPORT only when SEARCH has left a result (of matches or of
\* failure) and CLASSIFY has left a verdict, never when CLASSIFY failed.
C17_StageOrder ==
    \A r \in Requests :
        /\ Len(req[r].ran) <= Len(StageOrder)
        /\ req[r].ran = SubSeq(StageOrder, 1, Len(req[r].ran))
        /\ Ran(r, "PERSIST") =>
              /\ req[r].image.ok
              /\ req[r].fingerprint = Sha256Hex(req[r].image.pixels)
        /\ Ran(r, "SEARCH") =>
              /\ db[r].pc = "idle"
              /\ db[r].result \in {"ok", "raised"}
        /\ (req[r].pc = "REPORT" \/ Ran(r, "REPORT")) =>
              /\ Ran(r, "SEARCH") /\ req[r].search_result # Unset
              /\ Ran(r, "CLASSIFY") /\ ~ClassifierErrored(r)
              /\ req[r].detection_result \in Verdicts

\* C17, its case: a request that went through all five stages although its
\* save and its search failed
C17_Witness ==
    \E r \in Requests :
        /\ Done(r)
        /\ req[r].ran = StageOrder
        /\ StoreFailed(r)
        /\ SearchFailed(r)

---------------------------------------------------------------------------
(* Error values and digests *)

\* the entries of the dataset of request r that are files whose fingerprinting
\* fails
FailedFiles(r) ==
    {i \in 1..Len(req[r].dataset.listing) :
        /\ req[r].dataset.listing[i].isfile
        /\ ~req[r].dataset.listing[i].img.ok}

\* C19: no error value is taken for a digest.  A record the pipeline wrote to
\* the store holds the digest of a decodable upload, never the outcome of a
\* failed fingerprinting; a successful response carries such a digest in its
\* fingerprint field; and no dataset file whose fingerprinting failed is among
\* the exact matches reported.
C19_NoErrorDigest ==
    \A r \in Requests :
        /\ \A x \in RowsOf(rows, SafeName(r)) :
              /\ req[r].image.ok
              /\ x.hash_value = Sha256Hex(req[r].image.pixels)
              /\ IsHexString(x.hash_value)
              /\ ~StartsWith(x.hash_value, ErrorWord)
        /\ (Done(r) /\ req[r].response.status_code = 200) =>
              /\ req[r].image.ok
              /\ IsHexString(req[r].response.content.fingerprint)
              /\ ~StartsWith(req[r].response.content.fingerprint, ErrorWord)
        /\ (Ran(r, "SEARCH") /\ "matches" \in DOMAIN req[r].search_result) =>
              \A i \in FailedFiles(r) :
                  /\ req[r].dataset.listing[i].name
                        \notin Range(req[r].search_result.matches)
                  /\ req[r].dataset.listing[i].name \notin Range(req[r].matches_list)

\* C19, its case: a request answered 200 whose record is in the store and
\* whose search went over a file that does not fingerprint and found a match
C19_Witness ==
    \E r \in Requests :
        /\ Done(r) /\ req[r].response.status_code = 200
        /\ RowsOf(rows, SafeName(r)) # {}
        /\ FailedFiles(r) # {}
        /\ req[r].matches_list # <<>>

---------------------------------------------------------------------------
(* Properties of the store under concurrent saves and deletes *)

\* the save_fingerprint call of p has returned without raising
SavedNormally(p) ==
    db[p].pc = "returned" /\ db[p].op = "save" /\ db[p].result = "ok"

\* C13: store failures are never swallowed.  Under every interleaving with
\* concurrent save_fingerprint and delete_fingerprint calls, a call
\* save_fingerprint(k, h) that returns normally has committed a record (k, h):
\* it inserted it, updated the record of k to h, or found the record of k
\* holding h already.
C13_NeverSwallowed ==
    \A p \in Callers :
        SavedNormally(p) => db[p].did \in {"inserted", "updated", "nochange"}

---------------------------------------------------------------------------
(* The contract of delete_fingerprint *)

\* the records of table whose filename is not filename
OtherRows(table, filename) == {x \in table : x.filename # filename}

\* the step in which the delete_fingerprint call of p finds no record and
\* returns
DeleteMisses(p) == db[p].pc = "del_lookup" /\ db'[p].pc = "returned"

\* the step in which the delete_fingerprint call of p finds a record
DeleteFinds(p) == db[p].pc = "del_lookup" /\ db'[p].pc = "del_delete"

\* the step in which the delete_fingerprint call of p commits and returns
DeleteCommits(p) == db[p].pc = "del_delete" /\ db'[p].pc = "returned"

\* a step of analyze_image, the statements of its save included
PipelineStep == \E r \in Requests : req'[r] # req[r] \/ db'[r] # db[r]

\* what C20 says of one step
DeleteContract ==
    /\ \A p \in Callers :
          /\ DeleteMisses(p) =>
                /\ db'[p].result = "False"
                /\ RowsOf(rows, db[p].filename) = {}
                /\ rows' = rows
          /\ DeleteFinds(p) =>
                /\ RowsOf(rows, db[p].filename) # {}
                /\ rows' = rows
          /\ DeleteCommits(p) =>
                /\ db'[p].result = "True"
                /\ RowsOf(rows, db[p].filename) # {}
                /\ RowsOf(rows', db[p].filename) = {}
                /\ count_fingerprints(rows') = count_fingerprints(rows) - 1
                /\ OtherRows(rows', db[p].filename) = OtherRows(rows, db[p].filename)
    /\ PipelineStep => rows \subseteq rows'

\* C20: delete contract, for calls of the store that follow one another while
\* a request is analysed.  delete_fingerprint(k) returns True exactly when it
\* found a record for k; its commit leaves no record for k and a count one
\* lower; when there is no record for k it returns False and leaves the store
\* as it was; in both cases the records of every other key are unchanged; and
\* no step of the analyze pipeline removes a record.
C20_DeleteContract == [][DeleteContract]_vars

\* C20, its case: a delete has returned True after the request had written
\* its record, which is still there, as is the record of the other key
C20_Witness ==
    \E r \in Requests :
        /\ db["c1"].pc = "returned" /\ db["c1"].op = "delete"
        /\ db["c1"].result = "True"
        /\ RowsOf(rows, SafeName(r)) # {}
        /\ OtherRows(rows, SafeName(r)) # {}

---------------------------------------------------------------------------
(* Properties of the REPORT stage *)

\* a call of the incident reporter raised during REPORT of request r
ReporterRaised(r) ==
    req[r].alert_outcome = "raise" \/ req[r].takedown_outcome = "raise"

\* C11: report failure is non-fatal.  If generate_alert or
\* generate_takedown_request raises, the request still returns a successful
\* result that carries the fingerprint, the search result and the verdict,
\* with both artifact references null.
C11_ReportNonFatal ==
    \A r \in Requests :
        (Done(r) /\ ReporterRaised(r)) =>
            /\ req[r].response.status_code = 200
            /\ req[r].response.content.fingerprint = Sha256Hex(req[r].image.pixels)
            /\ req[r].response.content.search_result = req[r].search_result
            /\ req[r].search_result # Unset
            /\ req[r].response.content.deepfake_result \in Verdicts
            /\ req[r].response.content.alert_file = None
            /\ req[r].response.content.takedown_request = None

\* C11, its case: generate_alert raised for a request whose search had found
\* a match
C11_Witness ==
    \E r \in Requests :
        /\ Done(r)
        /\ req[r].alert_outcome = "raise"
        /\ req[r].matches_list # <<>>
        /\ req[r].response.status_code = 200

\* C12: artifacts only when suspicious.  For a request whose verdict is REAL
\* the reporter is not called: no alert or takedown artifact is generated and
\* both artifact references of the result are null.
C12_OnlyWhenSuspicious ==
    \A r \in Requests :
        (Done(r) /\ ~ClassifierErrored(r) /\ Ran(r, "CLASSIFY")
                 /\ req[r].detection_result.prediction = "REAL") =>
            /\ req[r].alert_outcome = "none" /\ req[r].takedown_outcome = "none"
            /\ req[r].written = {}
            /\ req[r].response.content.alert_file = None
            /\ req[r].response.content.takedown_request = None

\* C18: per-artifact result.  If generate_alert succeeds and
\* generate_takedown_request then fails, the result has the path of the alert
\* that was written as its alert reference, and a null takedown reference.
C18_PerArtifact ==
    \A r \in Requests :
        (Done(r) /\ req[r].alert_outcome = "ok" /\ req[r].takedown_outcome = "raise") =>
            /\ req[r].response.status_code = 200
            /\ req[r].response.content.alert_file = AlertPath
            /\ req[r].response.content.takedown_request = None

---------------------------------------------------------------------------
(* backend/setup_sample_dataset.py: download_image *)

\* the largest value of the retries argument
MaxRetries == 3

\* the exceptions of requests.get and raise_for_status, all of them
\* requests.RequestException
RequestErrors == {"ConnectionError", "Timeout", "HTTPError"}

\* what the remote server makes of one HTTP attempt: a request error, or a
\* response whose content is small (under 200 bytes) or not, and is an image
\* Pillow verifies or not
ServerOutcomes ==
    [error : RequestErrors, small : {FALSE}, valid : {FALSE}]
    \cup [error : {"none"}, small : BOOLEAN, valid : BOOLEAN]

\* what open(dest_path, "wb") and f.write make of the file
WriteOutcomes == {"ok", "open_fails", "write_fails"}

\* a loop that allows one attempt more than retries + 1
AttemptAllowedOnceMore(attempt, retries) == attempt <= retries + 1

\* while attempt <= retries
AttemptAllowed(attempt, retries) == attempt <= retries

\* download_image(url, dest_path, retries = n) has been called; attempt = 0.
\* log holds the outcome of each HTTP attempt made, file the state of dest_path
\* and before its state at the call.
DownloadInit ==
    /\ rows = {}
    /\ db = [p \in Procs |-> NoCall]
    /\ req = [r \in Requests |-> NoRequest]
    /\ fn \in [op : {"download"}, pc : {"loop"}, retries : 0..MaxRetries,
               attempt : {0}, log : {<<>>}, file : {"absent", "old"},
               before : {"absent", "old"}, result : {"none"}]
    /\ fn.before = fn.file

\* the loop test; after the loop, return False
DownloadLoop ==
    /\ fn.op = "download" /\ fn.pc = "loop"
    /\ fn' = IF AttemptAllowed(fn.attempt, fn.retries)
             THEN [fn EXCEPT !.pc = "get"]
             ELSE [fn EXCEPT !.pc = "returned", !.result = "False"]
    /\ UNCHANGED <<rows, db, req>>

\* requests.get and raise_for_status; on RequestException attempt += 1 and,
\* after the sleep, the loop test again
DownloadGet(o) ==
    /\ fn.op = "download" /\ fn.pc = "get"
    /\ fn' = IF o.error # "none"
             THEN [fn EXCEPT !.log = Append(@, o), !.attempt = @ + 1, !.pc = "loop"]
             ELSE [fn EXCEPT !.log = Append(@, o), !.pc = "check"]
    /\ UNCHANGED <<rows, db, req>>

\* the size test, then Image.open and verify: return False on either failure
DownloadCheck ==
    /\ fn.op = "download" /\ fn.pc = "check"
    /\ LET resp == fn.log[Len(fn.log)]
       IN  fn' = IF resp.small THEN [fn EXCEPT !.pc = "returned", !.result = "False"]
                 ELSE IF ~resp.valid
                 THEN [fn EXCEPT !.pc = "returned", !.result = "False"]
                 ELSE [fn EXCEPT !.pc = "save"]
    /\ UNCHANGED <<rows, db, req>>

\* open(dest_path, "wb"), f.write(resp.content), return True; an OSError of
\* either is not caught and leaves download_image
DownloadSave(w) ==
    /\ fn.op = "download" /\ fn.pc = "save"
    /\ fn' = CASE w = "ok" ->
                    [fn EXCEPT !.pc = "returned", !.result = "True", !.file = "written"]
               [] w = "open_fails" ->
                    [fn EXCEPT !.pc = "returned", !.result = "raised"]
               [] w = "write_fails" ->
                    [fn EXCEPT !.pc = "returned", !.result = "raised", !.file = "partial"]
    /\ UNCHANGED <<rows, db, req>>

DownloadNext ==
    \/ DownloadLoop
    \/ \E o \in ServerOutcomes : DownloadGet(o)
    \/ DownloadCheck
    \/ \E w \in WriteOutcomes : DownloadSave(w)

\* one call of download_image, which goes on as long as it has a step to take
DownloadSpec == DownloadInit /\ [][DownloadNext]_vars /\ WF_vars(DownloadNext)

---------------------------------------------------------------------------
(* Properties of download_image *)

\* download_image has returned or raised
DownloadEnded == fn.pc = "returned"

\* the outcome of the last HTTP attempt made
LastOutcome == fn.log[Len(fn.log)]

\* what C21 says of every state of a call
DownloadBounded ==
    /\ Len(fn.log) <= fn.retries + 1
    /\ \A i \in 1..(Len(fn.log) - 1) : fn.log[i].error \in RequestErrors
    /\ (DownloadEnded /\ Len(fn.log) > 0 /\ LastOutcome.error = "none"
            /\ (LastOutcome.small \/ ~LastOutcome.valid)) =>
          /\ fn.result = "False"
          /\ fn.file = fn.before
    /\ (DownloadEnded /\ Len(fn.log) > 0 /\ LastOutcome.error \in RequestErrors) =>
          /\ fn.result = "False"
          /\ Len(fn.log) = fn.retries + 1
    /\ (DownloadEnded /\ fn.result = "False"
            /\ \A i \in 1..Len(fn.log) : fn.log[i].error \in RequestErrors) =>
          Len(fn.log) = fn.retries + 1
    /\ (DownloadEnded /\ fn.result = "True") =>
          /\ fn.file = "written"
          /\ LastOutcome.error = "none"
          /\ ~LastOutcome.small /\ LastOutcome.valid

\* C21: bounded download retry.  For every retries >= 0 and every sequence of
\* server outcomes, download_image ends, having made at most retries + 1 HTTP
\* attempts; every attempt but the last met a request error; it returns False
\* with no further attempt on content that is too small or no valid image,
\* returns False after retries + 1 attempts that all met a request error, and
\* returns True only with the validated content written to dest_path.
C21_BoundedRetry == []DownloadBounded /\ <>DownloadEnded

\* C21, its case: a call with retries >= 1 that met a request error at every
\* one of its retries + 1 attempts and returned False
C21_Witness ==
    /\ fn.op = "download" /\ DownloadEnded
    /\ fn.retries >= 1
    /\ Len(fn.log) = fn.retries + 1
    /\ LastOutcome.error \in RequestErrors
    /\ fn.result = "False"

===========================================================================
